---- MODULE Spec2Model ----
(***************************************************************************)
(* Contact-form submission flow of assets/js/main.js (initContactForm):    *)
(* collection -> validation -> POST raced against a timer -> banner.       *)
(* One action per event-loop task; the microtasks a task triggers          *)
(* (promise continuations of the async handler) run inside the same        *)
(* action, as the event loop runs them before the next task.               *)
(* The DOM elements the handler captures (contactForm, submitBtn,          *)
(* submitText, formMessage) exist; field values are strings (no file       *)
(* inputs).  The navigation enhancements and testBackendConnection are     *)
(* modelled beside it, on pages that may lack the elements they look up.   *)
(***************************************************************************)
EXTENDS Integers, Sequences, FiniteSets, TLC

VARIABLES
    form,         \* current values of the form's controls, by field name
    btnDisabled,  \* submitBtn.disabled
    submitText,   \* submitText.textContent
    formMessage,  \* formMessage element: hidden class, textContent, banner type
    att,          \* one record per submission attempt (handler invocation)
    hideTimer,    \* the auto-hide timer each success banner registers
    nSubmits,     \* number of submit events delivered so far
    page,         \* navigation elements of the page, their classes, the scroll offset
    probe         \* the pending or settled call of testBackendConnection

vars == <<form, btnDisabled, submitText, formMessage, att, hideTimer, nSubmits>>

ui == <<form, btnDisabled, submitText, formMessage>>

\* what the contact form's handlers never touch
env == <<page, probe>>

all == <<vars, env>>

----------------------------------------------------------------------------
(* Bounds *)

MaxAttempts == 2

Attempts == 1..MaxAttempts

----------------------------------------------------------------------------
(* Program constants *)

REQUEST_TIMEOUT == 10000

AUTO_HIDE_DELAY == 5000

\* granularity of the model's clock: timers count down in steps of this size
TimeStep == AUTO_HIDE_DELAY

VALIDATION_MSG == "Please fill in all required fields correctly."

THANKS_MSG == "Thank you for your message! We'll get back to you soon."

FALLBACK_MSG == "There was an error sending your message. Please try again."

CATCH_MSG == "There was an error sending your message. Please try again or contact us directly."

DEFAULT_SUCCESS_MSG == "Message sent successfully"

NETWORK_MSG == "Unable to connect to the server. Please check your internet connection or try again later."

TIMEOUT_MSG == "Request timed out. Please try again."

GENERIC_MSG == "An unexpected error occurred. Please try again or contact us directly."

SOURCE_TAG == "website_contact_form"

SENDING_LABEL == "Sending..."

NORMAL_LABEL == "Send Message"

----------------------------------------------------------------------------
(* Field values: strings are sequences of one-character strings *)

WhiteSpace == {" "}

\* the value JavaScript reads for a key that is not in the object
ABSENT == <<"undefined">>

ON == <<"o", "n">>

RequiredFields == {"firstName", "lastName", "email", "message", "privacy"}

OptionalFields == {"company", "phone", "service"}

\* "subject" stands for any further control a page's form carries
FieldNames == RequiredFields \cup OptionalFields \cup {"subject"}

RECURSIVE trimStart(_)
trimStart(s) ==
    IF s # <<>> /\ Head(s) \in WhiteSpace THEN trimStart(Tail(s)) ELSE s

RECURSIVE trimEnd(_)
trimEnd(s) ==
    IF s # <<>> /\ s[Len(s)] \in WhiteSpace
    THEN trimEnd(SubSeq(s, 1, Len(s) - 1))
    ELSE s

\* String.prototype.trim
trim(s) == trimEnd(trimStart(s))

\* data[key]: undefined when the key was not collected
Get(data, key) == IF key \in DOMAIN data THEN data[key] ELSE ABSENT

\* collectFormData storing the values as typed
collectFormData_NoTrim(f) ==
    [key \in {k \in DOMAIN f : f[k] # ABSENT} |-> f[key]]

\* FormData yields only the controls that have a value to submit
collectFormData(f) ==
    [key \in {k \in DOMAIN f : f[k] # ABSENT} |-> trim(f[key])]

\* [^\s@]
PlainChar(c) == c \notin WhiteSpace /\ c # "@"

\* the pattern without the dot: /^[^\s@]+@[^\s@]+$/
emailRegexTest_NoDot(s) ==
    \E i \in 1..Len(s) :
        /\ s[i] = "@"
        /\ i > 1
        /\ i < Len(s)
        /\ \A k \in (1..Len(s)) \ {i} : PlainChar(s[k])

\* /^[^\s@]+@[^\s@]+\.[^\s@]+$/ : local part, "@", then a part holding a dot
\* that has at least one character on each side
emailRegexTest(s) ==
    \E i \in 1..Len(s) :
        /\ s[i] = "@"
        /\ i > 1
        /\ \A k \in (1..Len(s)) \ {i} : PlainChar(s[k])
        /\ \E j \in (i + 2)..(Len(s) - 1) : s[j] = "."

\* !data[field] || data[field] === ''
Falsy(v) == v = ABSENT \/ v = <<>>

\* validateFormData without the comparison of privacy with 'on'
validateFormData_NoPrivacyCheck(data) ==
    /\ \A field \in RequiredFields : ~Falsy(Get(data, field))
    /\ emailRegexTest(Get(data, "email"))

\* validateFormData with "message" left out of the required list
validateFormData_MessageNotRequired(data) ==
    /\ \A field \in RequiredFields \ {"message"} : ~Falsy(Get(data, field))
    /\ emailRegexTest(Get(data, "email"))
    /\ Get(data, "privacy") = ON

validateFormData(data) ==
    /\ \A field \in RequiredFields : ~Falsy(Get(data, field))
    /\ emailRegexTest(Get(data, "email"))
    /\ Get(data, "privacy") = ON

\* v || ''
OrEmpty(v) == IF Falsy(v) THEN <<>> ELSE v

PayloadKeys ==
    {"firstName", "lastName", "email", "company", "phone", "service",
     "message", "timestamp", "source"}

\* the payload carrying every collected field along
BuildPayload_SpreadsData(data) ==
    [key \in PayloadKeys \cup DOMAIN data |->
        CASE key \in OptionalFields -> OrEmpty(Get(data, key))
          [] key = "timestamp" -> <<"ISO-8601">>
          [] key = "source" -> <<SOURCE_TAG>>
          [] OTHER -> Get(data, key)]

\* the payload without the || '' defaults of the optional fields
BuildPayload_NoDefault(data) ==
    [key \in PayloadKeys |->
        CASE key \in {"firstName", "lastName", "email", "message"} -> Get(data, key)
          [] key \in OptionalFields -> Get(data, key)
          [] key = "timestamp" -> <<"ISO-8601">>
          [] key = "source" -> <<SOURCE_TAG>>]

BuildPayload(data) ==
    [key \in PayloadKeys |->
        CASE key \in {"firstName", "lastName", "email", "message"} -> Get(data, key)
          [] key \in OptionalFields -> OrEmpty(Get(data, key))
          [] key = "timestamp" -> <<"ISO-8601">>
          [] key = "source" -> <<SOURCE_TAG>>]

NoPayload == [key \in PayloadKeys |-> ABSENT]

----------------------------------------------------------------------------
(* The form's contents *)

\* the page's form as loaded: empty text controls, the privacy checkbox
\* unchecked, and no service control (not every page's form has them all)
EmptyForm ==
    [key \in FieldNames |-> IF key \in {"privacy", "service"} THEN ABSENT ELSE <<>>]

\* form.reset(): text controls back to empty, the checkbox unchecked;
\* a control the form does not have stays absent
ResetForm(f) ==
    [key \in FieldNames |->
        IF key = "privacy" \/ f[key] = ABSENT THEN ABSENT ELSE <<>>]

GoodEmail == <<"a", "@", "b", ".", "c">>

ValidInput ==
    [key \in FieldNames |->
        CASE key = "email" -> GoodEmail
          [] key = "privacy" -> ON
          [] key \in OptionalFields \cup {"subject"} -> <<>>
          [] OTHER -> <<"a">>]

WithField(key, v) == [ValidInput EXCEPT ![key] = v]

\* what a user may have typed when a task runs
FormInputs ==
    {ValidInput,
     WithField("firstName", <<>>),
     WithField("lastName", <<" ">>),
     WithField("email", <<>>),
     WithField("email", <<"a", "@", "b">>),
     WithField("message", <<" ", " ">>),
     WithField("privacy", ABSENT),
     [ValidInput EXCEPT !["firstName"] = <<" ", "a", " ">>,
                        !["email"] = <<" ", "a", "@", "b", ".", "c", " ">>,
                        !["company"] = <<" ", "b">>,
                        !["subject"] = <<"s">>]}

\* typing cannot add a control the page's form does not have
OnLayout(f, input) ==
    [key \in FieldNames |->
        IF key # "privacy" /\ f[key] = ABSENT THEN ABSENT ELSE input[key]]

----------------------------------------------------------------------------
(* Server and network behaviours *)

Statuses == {200, 404, 500}

\* Response.ok taken to mean "no server fault"
ResponseOk_Below500(status) == status >= 200 /\ status < 500

\* Response.ok
ResponseOk(status) == status >= 200 /\ status <= 299

\* rejections of fetch(): a TypeError whose message depends on the browser
NetworkErrors ==
    {[name |-> "TypeError", message |-> <<"Failed to fetch">>],
     [name |-> "TypeError", message |-> <<"NetworkError when attempting to fetch resource.">>],
     [name |-> "TypeError", message |-> <<"Load failed">>]}

TimeoutError == [name |-> "Error", message |-> <<"Request timeout">>]

HttpError(status) == [name |-> "Error", message |-> <<"HTTP error! status: ", status>>]

NullBodyError ==
    [name |-> "TypeError", message |-> <<"Cannot read properties of null (reading 'message')">>]

JsonSyntaxError == [name |-> "SyntaxError", message |-> <<"Unexpected token">>]

\* error.message.includes('fetch')
IncludesFetch(message) ==
    message[1] \in {"Failed to fetch", "NetworkError when attempting to fetch resource."}

\* what response.json() settles with: a parsed object (with or without a
\* message), the JSON value null, a parse failure, or a failed body stream
Bodies ==
    {[parse |-> "object", hasMessage |-> TRUE, message |-> "ok"],
     [parse |-> "object", hasMessage |-> TRUE, message |-> ""],
     [parse |-> "object", hasMessage |-> FALSE, message |-> ""],
     [parse |-> "null", hasMessage |-> FALSE, message |-> ""],
     [parse |-> "SyntaxError", hasMessage |-> FALSE, message |-> ""],
     [parse |-> "TypeError", hasMessage |-> FALSE, message |-> ""]}

----------------------------------------------------------------------------
(* sendContactForm *)

Return(value) == [tag |-> "return", value |-> value]

\* the catch block without its 'Request timeout' branch
SendCatch_NoTimeoutBranch(error) ==
    IF error.name = "TypeError" /\ IncludesFetch(error.message)
    THEN Return([success |-> FALSE, message |-> NETWORK_MSG])
    ELSE Return([success |-> FALSE, message |-> GENERIC_MSG])

\* the catch block rethrowing what it does not recognise
SendCatch_Rethrows(error) ==
    IF error.name = "TypeError" /\ IncludesFetch(error.message)
    THEN Return([success |-> FALSE, message |-> NETWORK_MSG])
    ELSE IF error.message = TimeoutError.message
    THEN Return([success |-> FALSE, message |-> TIMEOUT_MSG])
    ELSE [tag |-> "throw", error |-> error]

\* the catch block with one message for every error
SendCatch_OneMessage(error) ==
    Return([success |-> FALSE, message |-> GENERIC_MSG])

\* the catch block with no text for an error it does not recognise
SendCatch_NoGenericMessage(error) ==
    IF error.name = "TypeError" /\ IncludesFetch(error.message)
    THEN Return([success |-> FALSE, message |-> NETWORK_MSG])
    ELSE IF error.message = TimeoutError.message
    THEN Return([success |-> FALSE, message |-> TIMEOUT_MSG])
    ELSE Return([success |-> FALSE, message |-> ""])

\* the catch block of sendContactForm
SendCatch(error) ==
    IF error.name = "TypeError" /\ IncludesFetch(error.message)
    THEN Return([success |-> FALSE, message |-> NETWORK_MSG])
    ELSE IF error.message = TimeoutError.message
    THEN Return([success |-> FALSE, message |-> TIMEOUT_MSG])
    ELSE Return([success |-> FALSE, message |-> GENERIC_MSG])

\* the response taken as ok whatever its status
SendOnResponse_IgnoresStatus(status) == [tag |-> "await"]

\* after the race is won by the response: throw on a non-ok status,
\* otherwise go on to await response.json()
SendOnResponse(status) ==
    IF ~ResponseOk(status) THEN SendCatch(HttpError(status)) ELSE [tag |-> "await"]

\* result.message || 'Message sent successfully'
ResultMessage(body) ==
    IF body.hasMessage /\ body.message # "" THEN body.message ELSE DEFAULT_SUCCESS_MSG

\* a body that does not parse taken for an empty result
SendOnBody_ParseErrorIgnored(body) ==
    CASE body.parse \in {"object", "SyntaxError"} ->
            Return([success |-> TRUE, message |-> ResultMessage(body)])
      [] body.parse = "null" -> SendCatch(NullBodyError)
      [] OTHER -> SendCatch([name |-> "TypeError", message |-> <<"Failed to fetch">>])

\* after response.json() settles
SendOnBody(body) ==
    CASE body.parse = "object" ->
            Return([success |-> TRUE, message |-> ResultMessage(body)])
      [] body.parse = "null" -> SendCatch(NullBodyError)
      [] body.parse = "SyntaxError" -> SendCatch(JsonSyntaxError)
      [] OTHER -> SendCatch([name |-> "TypeError", message |-> <<"Failed to fetch">>])

----------------------------------------------------------------------------
(* DOM helpers of initContactForm *)

\* setSubmitButtonState changing the label only
setSubmitButtonState_LabelOnly(loading) ==
    [disabled |-> FALSE,
     text |-> IF loading THEN SENDING_LABEL ELSE NORMAL_LABEL]

setSubmitButtonState(loading) ==
    [disabled |-> loading,
     text |-> IF loading THEN SENDING_LABEL ELSE NORMAL_LABEL]

\* showMessage leaving a banner that is already visible as it is
showMessage_KeepsVisible(message, type) ==
    IF ~formMessage.hidden
    THEN formMessage
    ELSE [hidden |-> FALSE, text |-> message, type |-> type]

\* formMessage after showMessage(message, type)
showMessage(message, type) ==
    [hidden |-> FALSE, text |-> message, type |-> type]

\* formMessage after hideMessage(): only the hidden class is added
hideMessage(fm) == [fm EXCEPT !.hidden = TRUE]

TimerOff == [state |-> "off", left |-> 0]

\* setTimeout(callback, delay)
setTimeout(delay) == [state |-> "running", left |-> delay]

TimerFired == [state |-> "fired", left |-> 0]

\* a timer is due when its delay has run out
Due(t) == t.state = "running" /\ t.left = 0

----------------------------------------------------------------------------
(* The submit handler *)

NoResult == [success |-> FALSE, message |-> ""]

IdleAttempt ==
    [pc |-> "idle",          \* idle, race (awaiting Promise.race), json (awaiting response.json()), done
     valid |-> FALSE,        \* validateFormData's verdict
     payload |-> NoPayload,  \* body of the POST
     fetch |-> "none",       \* none, pending, fulfilled, rejected
     posts |-> 0,            \* number of fetch() calls the attempt made
     status |-> 0,           \* response.status once the race yielded a response
     timer |-> TimerOff,     \* the REQUEST_TIMEOUT timer
     reentrant |-> FALSE,    \* submitted while an earlier attempt had not concluded
     cause |-> "none",       \* what concluded the attempt
     result |-> NoResult,    \* what sendContactForm returned
     shown |-> "",           \* text the attempt passed to showMessage
     type |-> "none",        \* banner type the attempt passed to showMessage
     reset |-> FALSE,        \* the attempt called form.reset()
     threw |-> FALSE]        \* the handler's promise rejected

\* the handler resetting the form on every path
Render_ResetsAlways(completion) ==
    IF completion.tag = "return"
    THEN IF completion.value.success
         THEN [text |-> THANKS_MSG, type |-> "success", reset |-> TRUE,
               threw |-> FALSE]
         ELSE [text |-> IF completion.value.message = ""
                        THEN FALLBACK_MSG
                        ELSE completion.value.message,
               type |-> "error", reset |-> TRUE, threw |-> FALSE]
    ELSE [text |-> CATCH_MSG, type |-> "error", reset |-> TRUE, threw |-> FALSE]

\* the handler's catch block: the error is logged and replaced by a banner
HandlerCatch(error) ==
    [text |-> CATCH_MSG, type |-> "error", reset |-> FALSE, threw |-> FALSE]

\* what the handler does with a completion of `await sendContactForm(..)`:
\* the if/else on response.success, or the catch block
Render(completion) ==
    IF completion.tag = "return"
    THEN IF completion.value.success
         THEN [text |-> THANKS_MSG, type |-> "success", reset |-> TRUE,
               threw |-> FALSE]
         ELSE [text |-> IF completion.value.message = ""
                        THEN FALLBACK_MSG
                        ELSE completion.value.message,
               type |-> "error", reset |-> FALSE, threw |-> FALSE]
    ELSE HandlerCatch(completion.error)

\* the handler from the completion of sendContactForm to its end:
\* showMessage, form.reset() on success, finally setSubmitButtonState(false)
Conclude(a, cause, completion, att1) ==
    LET r == Render(completion)
        b == setSubmitButtonState(FALSE)
    IN  /\ formMessage' = showMessage(r.text, r.type)
        /\ hideTimer' = IF r.type = "success"
                        THEN [hideTimer EXCEPT ![a] = setTimeout(AUTO_HIDE_DELAY)]
                        ELSE hideTimer
        /\ form' = IF r.reset THEN ResetForm(form) ELSE form
        /\ btnDisabled' = b.disabled
        /\ submitText' = b.text
        /\ att' = [att1 EXCEPT ![a].pc = "done", ![a].cause = cause,
                               ![a].shown = r.text, ![a].type = r.type,
                               ![a].reset = r.reset, ![a].threw = r.threw,
                               ![a].result = IF completion.tag = "return"
                                              THEN completion.value
                                              ELSE NoResult]

\* the attempts whose handler is suspended at an await
Unconcluded == {a \in Attempts : att[a].pc \in {"race", "json"}}

\* a submit event: the handler up to its first suspension
SubmitEvent ==
    /\ nSubmits < MaxAttempts
    /\ nSubmits' = nSubmits + 1
    /\ UNCHANGED env
    /\ LET a == nSubmits + 1
           data == collectFormData(form)
       IN  IF ~validateFormData(data)
           THEN /\ formMessage' = showMessage(VALIDATION_MSG, "error")
                /\ btnDisabled' = setSubmitButtonState(FALSE).disabled
                /\ submitText' = setSubmitButtonState(FALSE).text
                /\ att' = [att EXCEPT ![a].pc = "done", ![a].cause = "validation",
                                      ![a].reentrant = Unconcluded # {},
                                      ![a].shown = VALIDATION_MSG,
                                      ![a].type = "error"]
                /\ UNCHANGED <<form, hideTimer>>
           ELSE /\ formMessage' = hideMessage(formMessage)
                /\ btnDisabled' = setSubmitButtonState(TRUE).disabled
                /\ submitText' = setSubmitButtonState(TRUE).text
                /\ att' = [att EXCEPT ![a].pc = "race", ![a].valid = TRUE,
                                      ![a].reentrant = Unconcluded # {},
                                      ![a].payload = BuildPayload(data),
                                      ![a].timer = setTimeout(REQUEST_TIMEOUT),
                                      ![a].fetch = "pending",
                                      ![a].posts = 1]
                /\ UNCHANGED <<form, hideTimer>>

\* the user edits the form
Fill(input) ==
    /\ nSubmits < MaxAttempts
    /\ form' = OnLayout(form, input)
    /\ form' # form
    /\ UNCHANGED <<btnDisabled, submitText, formMessage, att, hideTimer, nSubmits, env>>

\* fetch() fulfilling with the handler resumed whether or not the race is over
FetchFulfils_IgnoresRace(a, status) ==
    /\ att[a].fetch = "pending"
    /\ LET att1 == [att EXCEPT ![a].fetch = "fulfilled", ![a].status = status]
           c == SendOnResponse(status)
       IN  IF c.tag = "await"
           THEN att' = [att1 EXCEPT ![a].pc = "json"] /\ UNCHANGED <<ui, hideTimer>>
           ELSE Conclude(a, "status", c, att1)
    /\ UNCHANGED <<nSubmits, env>>

\* the response's headers arrive: fetch() fulfils
FetchFulfils(a, status) ==
    /\ att[a].fetch = "pending"
    /\ LET att1 == [att EXCEPT ![a].fetch = "fulfilled"]
           att2 == [att1 EXCEPT ![a].status = status]
           c == SendOnResponse(status)
       IN  IF att[a].pc # "race"
           THEN att' = att1 /\ UNCHANGED <<ui, hideTimer>>
           ELSE IF c.tag = "await"
                THEN att' = [att2 EXCEPT ![a].pc = "json"] /\ UNCHANGED <<ui, hideTimer>>
                ELSE Conclude(a, "status", c, att2)
    /\ UNCHANGED <<nSubmits, env>>

\* the request fails: fetch() rejects
FetchRejects(a, error) ==
    /\ att[a].fetch = "pending"
    /\ LET att1 == [att EXCEPT ![a].fetch = "rejected"]
       IN  IF att[a].pc # "race"
           THEN att' = att1 /\ UNCHANGED <<ui, hideTimer>>
           ELSE Conclude(a, "network", SendCatch(error), att1)
    /\ UNCHANGED <<nSubmits, env>>

\* the timer's callback sending the request once more instead of giving up
TimeoutFires_Retries(a) ==
    /\ Due(att[a].timer)
    /\ LET att1 == [att EXCEPT ![a].timer = TimerFired]
       IN  IF att[a].pc # "race"
           THEN att' = att1 /\ UNCHANGED <<ui, hideTimer>>
           ELSE IF att[a].posts < 2
                THEN /\ att' = [att EXCEPT ![a].timer = setTimeout(REQUEST_TIMEOUT),
                                           ![a].posts = att[a].posts + 1]
                     /\ UNCHANGED <<ui, hideTimer>>
                ELSE Conclude(a, "timeout", SendCatch(TimeoutError), att1)
    /\ UNCHANGED <<nSubmits, env>>

\* the timer's callback ending the attempt whether or not the race is over
TimeoutFires_IgnoresRace(a) ==
    /\ Due(att[a].timer)
    /\ Conclude(a, "timeout", SendCatch(TimeoutError),
                [att EXCEPT ![a].timer = TimerFired])
    /\ UNCHANGED <<nSubmits, env>>

\* the REQUEST_TIMEOUT timer's callback rejects the timeout promise
TimeoutFires(a) ==
    /\ Due(att[a].timer)
    /\ LET att1 == [att EXCEPT ![a].timer = TimerFired]
       IN  IF att[a].pc # "race"
           THEN att' = att1 /\ UNCHANGED <<ui, hideTimer>>
           ELSE Conclude(a, "timeout", SendCatch(TimeoutError), att1)
    /\ UNCHANGED <<nSubmits, env>>

\* response.json() settles
JsonSettles(a, body) ==
    /\ att[a].pc = "json"
    /\ Conclude(a, IF body.parse = "object" THEN "success" ELSE "body",
                SendOnBody(body), att)
    /\ UNCHANGED <<nSubmits, env>>

\* the auto-hide timer's callback doing nothing
HideTimerFires_NoHide(a) ==
    /\ Due(hideTimer[a])
    /\ hideTimer' = [hideTimer EXCEPT ![a] = TimerFired]
    /\ UNCHANGED <<form, btnDisabled, submitText, formMessage, att, nSubmits, env>>

\* the auto-hide timer of a success banner calls hideMessage()
HideTimerFires(a) ==
    /\ Due(hideTimer[a])
    /\ hideTimer' = [hideTimer EXCEPT ![a] = TimerFired]
    /\ formMessage' = hideMessage(formMessage)
    /\ UNCHANGED <<form, btnDisabled, submitText, att, nSubmits, env>>

Elapse(t) ==
    IF t.state = "running"
    THEN [t EXCEPT !.left = IF t.left > TimeStep THEN t.left - TimeStep ELSE 0]
    ELSE t

Running == {a \in Attempts : att[a].timer.state = "running"}

Hiding == {a \in Attempts : hideTimer[a].state = "running"}

\* time passes: every running timer gets closer; a due timer runs first
Tick ==
    /\ Running \cup Hiding # {}
    /\ \A a \in Attempts : ~Due(att[a].timer) /\ ~Due(hideTimer[a])
    /\ att' = [a \in Attempts |-> [att[a] EXCEPT !.timer = Elapse(att[a].timer)]]
    /\ hideTimer' = [a \in Attempts |-> Elapse(hideTimer[a])]
    /\ UNCHANGED <<ui, nSubmits, env>>

----------------------------------------------------------------------------
(* Navigation enhancements: initMobileMenu, initSmoothScrolling,           *)
(* initScrollToTop, initNavbarScroll                                       *)

headerOffset == 70

NavbarThreshold == 50

ScrollToTopThreshold == 300

\* scroll offsets a user may bring the window to, and positions of targets
Offsets == {0, NavbarThreshold, NavbarThreshold + 1, ScrollToTopThreshold,
            ScrollToTopThreshold + 1}

\* which of #mobile-menu-button, #mobile-menu and <header> the page has
Layouts == [button : BOOLEAN, menu : BOOLEAN, header : BOOLEAN]

FullLayout == [button |-> TRUE, menu |-> TRUE, header |-> TRUE]

\* the page once initializeComponents has run: the scroll-to-top button is
\* created invisible; the menu carries its 'hidden' class or not
LoadedPage(layout, hidden) ==
    [button |-> layout.button,
     menu |-> layout.menu,
     header |-> layout.header,
     menuHidden |-> hidden,       \* #mobile-menu has the class 'hidden'
     pageYOffset |-> 0,           \* window.pageYOffset
     scrollPending |-> FALSE,     \* a scroll event is queued
     shadow |-> FALSE,            \* <header> has the class 'shadow-md'
     topVisible |-> FALSE,        \* #scrollToTop lacks 'opacity-0 invisible'
     last |-> "load",             \* the event handled last
     target |-> "none",           \* what the anchor clicked last selects
     prevHidden |-> hidden,       \* menuHidden before that event
     threw |-> FALSE]             \* a listener of that event ended with an error

\* the page as an event finds it: nothing thrown yet, no anchor clicked
Event(p, name) ==
    [p EXCEPT !.last = name, !.prevHidden = p.menuHidden,
              !.target = "none", !.threw = FALSE]

\* the click listeners exist only when both elements were found
MenuBound(p) == p.button /\ p.menu

\* what an in-page anchor's href selects: an element at a position, no
\* element, or nothing that is a selector (href="#")
Targets ==
    [kind : {"element"}, top : Offsets]
    \cup {[kind |-> "missing", top |-> 0], [kind |-> "#", top |-> 0]}

\* window.scrollTo({top}): the offset is clamped at the top of the page
scrollTo(p, top) ==
    LET y == IF top < 0 THEN 0 ELSE top
    IN  [p EXCEPT !.pageYOffset = y,
                  !.scrollPending = p.scrollPending \/ y # p.pageYOffset]

\* the click listener of an a[href^="#"]
anchorClick(p, target) ==
    LET q == [p EXCEPT !.target = target.kind]
    IN  CASE target.kind = "missing" -> q
          [] target.kind = "#" -> [q EXCEPT !.threw = TRUE]
          [] OTHER -> scrollTo(q, target.top - headerOffset)

\* a click on #mobile-menu-button
ClickMenuButton ==
    /\ page.button
    /\ page' = [Event(page, "button") EXCEPT
                    !.menuHidden = IF MenuBound(page) THEN ~@ ELSE @]
    /\ UNCHANGED <<vars, probe>>

\* a link of the menu toggling it like the button
ClickMenuLink_Toggles(target) ==
    /\ page.menu
    /\ LET p == [Event(page, "link") EXCEPT
                     !.menuHidden = IF MenuBound(page) THEN ~@ ELSE @]
       IN  page' = anchorClick(p, target)
    /\ UNCHANGED <<vars, probe>>

\* a click on a link inside #mobile-menu: the menu's listener, then the
\* smooth-scrolling listener of the same link
ClickMenuLink(target) ==
    /\ page.menu
    /\ LET p == [Event(page, "link") EXCEPT
                     !.menuHidden = IF MenuBound(page) THEN TRUE ELSE @]
       IN  page' = anchorClick(p, target)
    /\ UNCHANGED <<vars, probe>>

\* a click on an in-page anchor outside the menu
ClickAnchor(target) ==
    /\ page' = anchorClick(Event(page, "anchor"), target)
    /\ UNCHANGED <<vars, probe>>

\* a click on #scrollToTop, which can be clicked only while visible
ClickScrollToTop ==
    /\ page.topVisible
    /\ page' = scrollTo(Event(page, "top"), 0)
    /\ UNCHANGED <<vars, probe>>

\* the user scrolls the window
UserScroll(y) ==
    /\ y # page.pageYOffset
    /\ page' = scrollTo(Event(page, "move"), y)
    /\ UNCHANGED <<vars, probe>>

\* window.pageYOffset > 50, as a strict comparison replaced by >=
navbarShadow_AtLeast(y) == y >= NavbarThreshold

\* window.pageYOffset > 50
navbarShadow(y) == y > NavbarThreshold

\* window.pageYOffset > 300
scrollToTopShown(y) == y > ScrollToTopThreshold

\* a scroll event: the listener of initScrollToTop, then the listener of
\* initNavbarScroll, which dereferences the header it looked up
ScrollEvent ==
    /\ page.scrollPending
    /\ page' = [Event(page, "scroll") EXCEPT
                    !.scrollPending = FALSE,
                    !.topVisible = scrollToTopShown(page.pageYOffset),
                    !.shadow = IF page.header
                               THEN navbarShadow(page.pageYOffset)
                               ELSE @,
                    !.threw = ~page.header]
    /\ UNCHANGED <<vars, probe>>

----------------------------------------------------------------------------
(* testBackendConnection *)

HealthStatuses == {200, 204, 304, 404, 500}

IdleProbe ==
    [pc |-> "idle",          \* idle, pending (awaiting fetch), done
     settled |-> "none",     \* none, response, error
     status |-> 0,           \* response.status
     result |-> FALSE,       \* the value the call resolved to
     threw |-> FALSE]        \* the call's promise rejected

\* a call of testBackendConnection(): GET {API_BASE_URL}/health is issued
testBackendConnection ==
    /\ probe.pc \in {"idle", "done"}
    /\ probe' = [IdleProbe EXCEPT !.pc = "pending"]
    /\ UNCHANGED <<vars, page>>

\* the health fetch fulfils: return response.ok
HealthFulfils(status) ==
    /\ probe.pc = "pending"
    /\ probe' = [probe EXCEPT !.pc = "done", !.settled = "response",
                              !.status = status, !.result = ResponseOk(status)]
    /\ UNCHANGED <<vars, page>>

\* the catch block passing the error on
HealthRejects_Rethrows(error) ==
    /\ probe.pc = "pending"
    /\ probe' = [probe EXCEPT !.pc = "done", !.settled = "error",
                              !.threw = TRUE]
    /\ UNCHANGED <<vars, page>>

\* the health fetch rejects: the catch block logs and returns false
HealthRejects(error) ==
    /\ probe.pc = "pending"
    /\ probe' = [probe EXCEPT !.pc = "done", !.settled = "error",
                              !.result = FALSE]
    /\ UNCHANGED <<vars, page>>

PageInit ==
    /\ form = EmptyForm
    /\ btnDisabled = FALSE
    /\ submitText = NORMAL_LABEL
    /\ formMessage = [hidden |-> TRUE, text |-> "", type |-> "none"]
    /\ att = [a \in Attempts |-> IdleAttempt]
    /\ hideTimer = [a \in Attempts |-> TimerOff]
    /\ nSubmits = 0
    /\ \E layout \in Layouts, hidden \in BOOLEAN : page = LoadedPage(layout, hidden)
    /\ probe = IdleProbe

PageNext ==
    \/ ClickMenuButton
    \/ \E target \in Targets : ClickMenuLink(target)
    \/ \E target \in Targets : ClickAnchor(target)
    \/ ClickScrollToTop
    \/ \E y \in Offsets : UserScroll(y)
    \/ ScrollEvent
    \/ testBackendConnection
    \/ \E status \in HealthStatuses : HealthFulfils(status)
    \/ \E error \in NetworkErrors : HealthRejects(error)

\* the page's navigation and the health probe, the contact form left alone
PageSpec == PageInit /\ [][PageNext]_all

Init ==
    /\ form = EmptyForm
    /\ btnDisabled = FALSE
    /\ submitText = NORMAL_LABEL
    /\ formMessage = [hidden |-> TRUE, text |-> "", type |-> "none"]
    /\ att = [a \in Attempts |-> IdleAttempt]
    /\ hideTimer = [a \in Attempts |-> TimerOff]
    /\ nSubmits = 0
    /\ page = LoadedPage(FullLayout, TRUE)
    /\ probe = IdleProbe

Next ==
    \/ SubmitEvent
    \/ \E input \in FormInputs : Fill(input)
    \/ \E a \in Attempts, status \in Statuses : FetchFulfils(a, status)
    \/ \E a \in Attempts, error \in NetworkErrors : FetchRejects(a, error)
    \/ \E a \in Attempts : TimeoutFires(a)
    \/ \E a \in Attempts, body \in Bodies : JsonSettles(a, body)
    \/ \E a \in Attempts : HideTimerFires(a)
    \/ Tick

Spec == Init /\ [][Next]_all

----------------------------------------------------------------------------
(* Properties *)

\* a step that delivers a submit event; the attempt it starts is nSubmits'
Submits == nSubmits' = nSubmits + 1

Blank(v) == \A i \in 1..Len(v) : v[i] = " "

\* a required control is absent, empty, or holds only spaces
MissingRequired(f) ==
    \E key \in {"firstName", "lastName", "email", "message", "privacy"} :
        f[key] = ABSENT \/ Blank(f[key])

ValidationBanner == [hidden |-> FALSE, text |-> VALIDATION_MSG, type |-> "error"]

\* C1: a submit event on a form with a required field absent or blank issues
\* no fetch (for this or any attempt), starts no timer, shows the validation
\* error banner and leaves the form's values as they were.
C1_RejectedBeforeNetwork ==
    [][(Submits /\ MissingRequired(form)) =>
          /\ att'[nSubmits'].fetch = "none"
          /\ att'[nSubmits'].timer = TimerOff
          /\ att'[nSubmits'].payload = NoPayload
          /\ \A b \in Attempts : att'[b].fetch = att[b].fetch
          /\ formMessage' = ValidationBanner
          /\ form' = form]_vars

C1_Witness ==
    \E a \in Attempts :
        /\ att[a].cause = "validation"
        /\ MissingRequired(form)
        /\ form["privacy"] = ON
        /\ formMessage = ValidationBanner

OkBody == [parse |-> "object", hasMessage |-> TRUE, message |-> "ok"]

\* C2: when a 200 response with body {message: "ok"} arrives before the
\* timeout, the success banner's text is "ok" and the form is reset.
C2_SuccessTextIsServerMessage ==
    [][\A a \in Attempts :
          (/\ att[a].pc = "json"
           /\ att[a].status = 200
           /\ att[a].timer.state = "running"
           /\ JsonSettles(a, OkBody))
          => /\ formMessage' = [hidden |-> FALSE, text |-> "ok", type |-> "success"]
             /\ form' = ResetForm(form)]_vars

TimeoutBanner == [hidden |-> FALSE, text |-> TIMEOUT_MSG, type |-> "error"]

\* the step in which the REQUEST_TIMEOUT timer of attempt a fires
TimerFiresFor(a) ==
    att[a].timer.state = "running" /\ att'[a].timer.state = "fired"

\* C3: when the timeout timer of an attempt fires (REQUEST_TIMEOUT after the
\* submit) and its fetch has not settled, the banner is the timeout message
\* as an error, and the submit control is enabled with its normal label.
C3_TimeoutMessage ==
    [][\A a \in Attempts :
          (TimerFiresFor(a) /\ att[a].pc = "race" /\ att[a].fetch = "pending")
          => /\ att[a].timer.left = 0
             /\ formMessage' = TimeoutBanner
             /\ btnDisabled' = FALSE
             /\ submitText' = NORMAL_LABEL]_vars

C3_Witness ==
    \E a \in Attempts :
        /\ att[a].cause = "timeout"
        /\ att[a].fetch = "pending"
        /\ formMessage = TimeoutBanner
        /\ ~btnDisabled

ErrorBannerVisible == ~formMessage.hidden /\ formMessage.type = "error"

\* C4: a visible error banner stays visible across every step that is not
\* a submit event.
C4_ErrorBannerPersists ==
    [][(ErrorBannerVisible /\ ~Submits) => ~formMessage'.hidden]_vars

InFlight == {a \in Attempts : att[a].pc = "race"}

ButtonShowsProgress == btnDisabled /\ submitText = SENDING_LABEL

\* C5 as stated: whenever a request is in flight the submit control is
\* disabled and labelled 'Sending...', whatever submit events were delivered.
C5_InFlightDisabledAlways == InFlight # {} => ButtonShowsProgress

NoReentrantSubmit == \A a \in Attempts : ~att[a].reentrant

\* C5 amended: whenever a request is in flight and no submit event was
\* delivered while an earlier attempt had not yet concluded, the submit
\* control is disabled and labelled 'Sending...'.
C5_InFlightDisabled ==
    (InFlight # {} /\ NoReentrantSubmit) => ButtonShowsProgress

C5_Witness ==
    \E a, b \in Attempts :
        /\ a < b
        /\ att[a].pc = "done"
        /\ att[a].fetch = "pending"
        /\ att[b].pc = "race"
        /\ NoReentrantSubmit
        /\ ButtonShowsProgress

\* C6: the wait of every attempt is bounded by its timeout timer: once the
\* timer of an attempt has fired, the attempt has concluded (and thereby
\* re-enabled the submit control), whatever the server does.
C6_WaitBoundedByTimeout ==
    \A a \in Attempts : att[a].timer.state = "fired" => att[a].pc = "done"

GenericBanner == [hidden |-> FALSE, text |-> GENERIC_MSG, type |-> "error"]

\* the step in which the fetch of attempt a fulfils while the race is open
RespondsInTime(a) ==
    att[a].pc = "race" /\ att[a].fetch = "pending" /\ att'[a].fetch = "fulfilled"

\* C7: a response with a status outside 200..299 that arrives before the
\* timeout renders the generic error string as an error banner, whatever
\* the status, and leaves the form's values as they were.
C7_Non2xxGenericError ==
    [][\A a \in Attempts :
          (RespondsInTime(a) /\ att'[a].status \notin 200..299)
          => /\ formMessage' = GenericBanner
             /\ att'[a].pc = "done"
             /\ form' = form]_vars

C7_Witness ==
    \E a \in Attempts :
        /\ att[a].cause = "status"
        /\ att[a].status = 500
        /\ att[a].timer.state = "running"
        /\ formMessage = GenericBanner
        /\ form = OnLayout(EmptyForm, ValidInput)

\* C8: when the timer fires before the fetch settles the attempt concludes
\* as a timeout and its fetch stays pending (it is not cancelled); when that
\* fetch settles later, banner, submit control and form are left untouched.
C8_DanglingFetchIgnored ==
    [][\A a \in Attempts :
          /\ (TimerFiresFor(a) /\ att[a].pc = "race")
             => /\ att'[a].pc = "done"
                /\ att'[a].shown = TIMEOUT_MSG
                /\ att'[a].type = "error"
                /\ att'[a].fetch = "pending"
          /\ (att[a].timer.state = "fired" /\ att[a].pc = "done"
              /\ att[a].fetch = "pending" /\ att'[a].fetch # "pending")
             => /\ UNCHANGED ui
                /\ att'[a].shown = TIMEOUT_MSG]_vars

C8_Witness ==
    \E a \in Attempts :
        /\ att[a].cause = "timeout"
        /\ att[a].fetch = "fulfilled"
        /\ formMessage = TimeoutBanner

\* the failure kind a message string stands for
KindOf(message) ==
    CASE message = VALIDATION_MSG -> "validation-failure"
      [] message = NETWORK_MSG -> "network-error"
      [] message = TIMEOUT_MSG -> "timeout"
      [] message = GENERIC_MSG -> "server-error"
      [] OTHER -> "unclassified"

FailureKinds == {"validation-failure", "network-error", "timeout", "server-error"}

\* C9: no concluded attempt ended with the handler's promise rejected; each
\* rendered a banner, and each that did not succeed rendered an error banner
\* whose message is that of one of the four failure kinds.
C9_FailuresCaughtAndClassified ==
    \A a \in Attempts :
        att[a].pc = "done" =>
            /\ ~att[a].threw
            /\ att[a].type \in {"success", "error"}
            /\ att[a].cause # "success" =>
                  /\ att[a].type = "error"
                  /\ KindOf(att[a].shown) \in FailureKinds

C9_Witness ==
    \E a, b \in Attempts :
        /\ att[a].pc = "done" /\ att[a].cause = "body"
        /\ KindOf(att[a].shown) = "server-error"
        /\ att[b].pc = "done" /\ att[b].cause = "network"
        /\ KindOf(att[b].shown) = "network-error"

\* the step in which attempt a concludes with an error banner
ConcludesAsFailure(a) ==
    att[a].pc # "done" /\ att'[a].pc = "done" /\ att'[a].type = "error"

SomeFailed == \E a \in Attempts : att[a].pc = "done" /\ att[a].type = "error"

\* C10: the step that concludes an attempt as a failure leaves the submit
\* control enabled with its normal label and the form's values unchanged;
\* a submit event after a failure is processed as a first one is: rejected
\* with the validation banner if the form is invalid, else a request is
\* issued with a fresh REQUEST_TIMEOUT timer and the control shows progress.
C10_RetryAfterFailure ==
    [][/\ \A a \in Attempts :
             ConcludesAsFailure(a)
             => /\ btnDisabled' = FALSE
                /\ submitText' = NORMAL_LABEL
                /\ form' = form
       /\ (Submits /\ SomeFailed)
          => IF MissingRequired(form) \/ ~emailRegexTest(trim(form["email"]))
                \/ form["privacy"] # ON
             THEN formMessage' = ValidationBanner /\ att'[nSubmits'].fetch = "none"
             ELSE /\ att'[nSubmits'].pc = "race"
                  /\ att'[nSubmits'].fetch = "pending"
                  /\ att'[nSubmits'].timer = setTimeout(REQUEST_TIMEOUT)
                  /\ btnDisabled' /\ submitText' = SENDING_LABEL
                  /\ formMessage'.hidden]_vars

C10_Witness ==
    \E a, b \in Attempts :
        /\ a < b
        /\ att[a].pc = "done" /\ att[a].cause = "timeout"
        /\ att[b].pc = "done" /\ att[b].cause = "success"
        /\ ~btnDisabled

\* the attempts that concluded as a failure other than validation
FailedAfterSend ==
    {a \in Attempts : att[a].pc = "done"
                      /\ att[a].cause \in {"network", "timeout", "status", "body"}}

\* C11 as stated: attempts that fail as network-error, timeout or
\* server-error all render the same message string.
C11_OneMessageForAllFailures ==
    \A a, b \in FailedAfterSend : att[a].shown = att[b].shown

\* C11 amended: the message tells the failure kinds apart: a timeout renders
\* the timeout string, a non-2xx status the generic string, a failed fetch
\* the network string (or the generic one when the browser's TypeError
\* message does not contain 'fetch'); none of them is the validation string.
C11_MessagePerFailureKind ==
    \A a \in FailedAfterSend :
        /\ att[a].cause = "timeout" => att[a].shown = TIMEOUT_MSG
        /\ att[a].cause = "status" => att[a].shown = GENERIC_MSG
        /\ att[a].cause = "network" => att[a].shown \in {NETWORK_MSG, GENERIC_MSG}
        /\ att[a].cause = "body" => att[a].shown \in {NETWORK_MSG, GENERIC_MSG}
        /\ att[a].shown # VALIDATION_MSG
        /\ Cardinality({TIMEOUT_MSG, GENERIC_MSG, NETWORK_MSG, VALIDATION_MSG}) = 4

C11_Witness ==
    \E a, b \in Attempts :
        /\ att[a].cause = "timeout" /\ att[a].shown = TIMEOUT_MSG
        /\ att[b].cause = "network" /\ att[b].shown = NETWORK_MSG

\* the attempts that have issued their POST request
Posted == {a \in Attempts : att[a].posts = 1}

\* the form's contents pass validation: every required field holds more
\* than spaces, the email has the local@domain.tld shape, privacy is 'on'
Acceptable(f) ==
    /\ ~MissingRequired(f)
    /\ emailRegexTest(trim(f["email"]))
    /\ trim(f["privacy"]) = ON

\* C12: every step changes the number of POST requests issued by exactly
\* one when it is a submit event on a form that passes validation, and by
\* nothing otherwise: a failure or timeout never causes a further request.
C12_OnePostPerValidSubmit ==
    [][/\ \A a \in Attempts : att[a].posts \in {0, 1} /\ att'[a].posts \in {0, 1}
       /\ Posted \subseteq Posted'
       /\ Cardinality(Posted') =
              Cardinality(Posted) + (IF Submits /\ Acceptable(form) THEN 1 ELSE 0)]_vars

C12_Witness ==
    \E a, b \in Attempts :
        /\ a < b
        /\ att[a].cause = "timeout"
        /\ att[b].cause = "validation"
        /\ Cardinality(Posted) = 1

\* the events of the page when the user only ever types one valid input
BannerNext ==
    \/ SubmitEvent
    \/ Fill(ValidInput)
    \/ \E a \in Attempts, status \in Statuses : FetchFulfils(a, status)
    \/ \E a \in Attempts, error \in NetworkErrors : FetchRejects(a, error)
    \/ \E a \in Attempts : TimeoutFires(a)
    \/ \E a \in Attempts, body \in Bodies : JsonSettles(a, body)
    \/ \E a \in Attempts : HideTimerFires(a)
    \/ Tick

\* the browser runs a timer's callback once its delay has run out, and
\* time passes; nothing obliges the user or the server to act
FairSpec ==
    /\ Init
    /\ [][BannerNext]_all
    /\ WF_vars(Tick)
    /\ \A a \in Attempts : WF_vars(TimeoutFires(a)) /\ WF_vars(HideTimerFires(a))

SuccessBannerVisible == ~formMessage.hidden /\ formMessage.type = "success"

\* C13: a visible success banner is eventually no longer visible, with no
\* action of the user or the server needed: its auto-hide timer hides it.
C13_SuccessBannerHidden == SuccessBannerVisible ~> ~SuccessBannerVisible

\* a success banner was rendered, no submit event followed, and the
\* banner's timer has hidden it
C13_Witness ==
    \E a \in Attempts :
        /\ att[a].cause = "success"
        /\ nSubmits = a
        /\ hideTimer[a] = TimerFired
        /\ formMessage = [hidden |-> TRUE, text |-> THANKS_MSG, type |-> "success"]

----------------------------------------------------------------------------
(* Validation and payload over all short field values *)

MaxEmailLen == 5

MaxTextLen == 3

SeqsUpTo(S, n) == UNION {[1..k -> S] : k \in 0..n}

EmailValues == SeqsUpTo({"a", "@", ".", " "}, MaxEmailLen)

TextValues == SeqsUpTo({"a", " "}, MaxTextLen)

PrivacyValues == {ABSENT, <<>>, <<" ">>, ON, <<"o", "f", "f">>, <<"o", "n", " ">>}

\* forms a user may submit: any short email with any privacy value, any
\* short text (or no control) in one field, and any short texts in a
\* required, another required and an optional field at once
ValidateInputs ==
    {[ValidInput EXCEPT !["email"] = e, !["privacy"] = p] :
        e \in EmailValues, p \in PrivacyValues}
    \cup {[ValidInput EXCEPT ![key] = v] :
            key \in FieldNames \ {"privacy"}, v \in TextValues \cup {ABSENT}}
    \cup {[ValidInput EXCEPT !["firstName"] = v, !["message"] = w, !["company"] = c] :
            v \in TextValues, w \in TextValues, c \in TextValues \cup {ABSENT}}

ValidateInit ==
    /\ form \in ValidateInputs
    /\ btnDisabled = FALSE
    /\ submitText = NORMAL_LABEL
    /\ formMessage = [hidden |-> TRUE, text |-> "", type |-> "none"]
    /\ att = [a \in Attempts |-> IdleAttempt]
    /\ hideTimer = [a \in Attempts |-> TimerOff]
    /\ nSubmits = 0
    /\ page = LoadedPage(FullLayout, TRUE)
    /\ probe = IdleProbe

\* submit events alone, on a form whose contents stay as typed
ValidateSpec == ValidateInit /\ [][SubmitEvent]_all

Started == {a \in Attempts : att[a].pc # "idle"}

NoAt(s) == \A i \in 1..Len(s) : s[i] # "@"

\* there is an "@" and no dot anywhere after the first one
NoDotAfterAt(s) ==
    \E i \in 1..Len(s) :
        /\ s[i] = "@"
        /\ \A k \in 1..(i - 1) : s[k] # "@"
        /\ \A j \in (i + 1)..Len(s) : s[j] # "."

\* C14: a submitted form whose email has no "@", or no dot after the "@",
\* is rejected by validation whatever the other fields hold: the attempt
\* shows the validation error and issues no request.
C14_BadEmailRejected ==
    \A a \in Started :
        (NoAt(form["email"]) \/ NoDotAfterAt(form["email"]))
        => /\ att[a].cause = "validation"
           /\ att[a].shown = VALIDATION_MSG
           /\ att[a].fetch = "none"
           /\ att[a].posts = 0

C14_Witness ==
    \E a \in Started :
        /\ form = WithField("email", <<"a", "@", "a", "a">>)
        /\ att[a].cause = "validation"

----------------------------------------------------------------------------
(* Properties of the race and of the response body *)

\* C15: when the fetch of an attempt has settled before its timer fires,
\* the firing of that timer changes only the timer itself: banner, submit
\* control, form, the attempt's outcome and every other attempt stay as
\* they are and no handler fails, also while a later attempt is in flight.
C15_StaleTimerIgnored ==
    [][\A a \in Attempts :
          (TimerFiresFor(a) /\ att[a].fetch \in {"fulfilled", "rejected"})
          => /\ UNCHANGED <<ui, hideTimer>>
             /\ att' = [att EXCEPT ![a].timer = TimerFired]
             /\ ~att'[a].threw]_vars

C15_Witness ==
    \E a, b \in Attempts :
        /\ a < b
        /\ att[a].cause = "status"
        /\ att[a].timer = TimerFired
        /\ att[b].pc = "race"
        /\ ButtonShowsProgress

UnparseableBody == [parse |-> "SyntaxError", hasMessage |-> FALSE, message |-> ""]

\* C16: when the body of a 2xx response does not parse as JSON, the attempt
\* ends with the generic error string as an error banner, the form's values
\* are kept and the submit control is enabled with its normal label.
C16_UnparseableBodyIsError ==
    [][\A a \in Attempts :
          (/\ att[a].pc = "json"
           /\ att[a].status \in 200..299
           /\ JsonSettles(a, UnparseableBody))
          => /\ formMessage' = GenericBanner
             /\ att'[a].pc = "done"
             /\ ~att'[a].result.success
             /\ form' = form
             /\ btnDisabled' = FALSE
             /\ submitText' = NORMAL_LABEL]_vars

C16_Witness ==
    \E a \in Attempts :
        /\ att[a].cause = "body"
        /\ att[a].status = 200
        /\ att[a].result = [success |-> FALSE, message |-> GENERIC_MSG]
        /\ formMessage = GenericBanner
        /\ ~btnDisabled
        /\ form = OnLayout(EmptyForm, ValidInput)

----------------------------------------------------------------------------
(* Properties of collection, validation and the payload *)

OnlySpaces(v) == v # ABSENT /\ v # <<>> /\ \A i \in 1..Len(v) : v[i] \in WhiteSpace

Padded(v) == v # <<>> /\ (v[1] \in WhiteSpace \/ v[Len(v)] \in WhiteSpace)

\* C17: a submitted form with a required field holding only whitespace is
\* rejected by validation without a request, and no field of a payload
\* that was sent starts or ends with whitespace.
C17_ValuesTrimmed ==
    \A a \in Started :
        /\ (\E key \in RequiredFields : OnlySpaces(form[key]))
           => /\ att[a].cause = "validation"
              /\ att[a].shown = VALIDATION_MSG
              /\ att[a].posts = 0
        /\ att[a].posts = 1
           => \A key \in PayloadKeys : ~Padded(att[a].payload[key])

C17_Witness ==
    \E a \in Started :
        /\ form["firstName"] = <<" ", "a", " ">>
        /\ form["message"] = <<"a", " ">>
        /\ form["company"] = <<" ", "a">>
        /\ att[a].posts = 1
        /\ att[a].payload["firstName"] = <<"a">>
        /\ att[a].payload["message"] = <<"a">>
        /\ att[a].payload["company"] = <<"a">>

\* C18: every submitted form that passes validation is sent once, with
\* firstName, lastName, email and message equal to the trimmed form values,
\* company, phone and service equal to the trimmed form value or empty when
\* the form has no such control, and source 'website_contact_form'.
C18_PayloadFields ==
    \A a \in Started :
        Acceptable(form)
        => /\ att[a].posts = 1
           /\ \A key \in {"firstName", "lastName", "email", "message"} :
                 att[a].payload[key] = trim(form[key])
           /\ \A key \in {"company", "phone", "service"} :
                 att[a].payload[key] =
                     IF form[key] = ABSENT THEN <<>> ELSE trim(form[key])
           /\ att[a].payload["source"] = <<"website_contact_form">>
           /\ DOMAIN att[a].payload = PayloadKeys

C18_Witness ==
    \E a \in Started :
        /\ form["company"] = ABSENT
        /\ form["firstName"] = <<"a", "a", " ">>
        /\ att[a].posts = 1
        /\ att[a].payload["company"] = <<>>
        /\ att[a].payload["firstName"] = <<"a", "a">>
        /\ att[a].payload["email"] = GoodEmail

\* C19: a submitted form whose collected privacy value is present and
\* non-empty but not 'on' is rejected by validation, with the validation
\* error and without a request, also when every other field is valid.
C19_ConsentMustBeOn ==
    \A a \in Started :
        LET privacy == Get(collectFormData(form), "privacy")
        IN  (privacy # ABSENT /\ privacy # <<>> /\ privacy # ON)
            => /\ att[a].cause = "validation"
               /\ att[a].shown = VALIDATION_MSG
               /\ att[a].type = "error"
               /\ att[a].fetch = "none"
               /\ att[a].posts = 0

C19_Witness ==
    \E a \in Started :
        /\ form = [ValidInput EXCEPT !["email"] = <<"a", "@", "a", ".", "a">>,
                                     !["privacy"] = <<"o", "f", "f">>]
        /\ att[a].cause = "validation"
        /\ att[a].posts = 0

\* C20: when the body of a 2xx response parses as JSON, sendContactForm
\* returns success with the body's message when that is a non-empty string
\* and with 'Message sent successfully' when the body has no message or an
\* empty one.
C20_SuccessMessageFromBody ==
    [][\A a \in Attempts : \A body \in Bodies :
          (/\ att[a].pc = "json"
           /\ att[a].status \in 200..299
           /\ body.parse \in {"object", "null"}
           /\ JsonSettles(a, body))
          => att'[a].result =
                [success |-> TRUE,
                 message |-> IF body.hasMessage /\ body.message # ""
                             THEN body.message
                             ELSE "Message sent successfully"]]_vars

----------------------------------------------------------------------------
(* Properties of the navigation enhancements and of the health probe *)

ElementMissing == ~page.button \/ ~page.menu \/ ~page.header

\* C21: on a page that lacks the menu button, the menu or the header, and
\* after a click on an anchor whose target does not exist, the event handled
\* last ended without an error (clicks on an anchor whose href is a bare
\* "#" aside).
C21_MissingElementsSilent ==
    ((ElementMissing /\ page.target # "#") \/ page.target = "missing")
    => ~page.threw


\* C22: a click on the menu button flips the menu between hidden and
\* visible, and a click on a link of the menu leaves the menu hidden
\* whatever it was before, on a page that has both the button and the menu.
C22_MenuToggleAndClose ==
    MenuBound(page)
    => /\ page.last = "button" => page.menuHidden = ~page.prevHidden
       /\ page.last = "link" => page.menuHidden
       /\ page.last \notin {"button", "link"} => page.menuHidden = page.prevHidden

C22_Witness ==
    /\ MenuBound(page)
    /\ page.last = "link"
    /\ ~page.prevHidden
    /\ page.menuHidden

\* C23: on a page with a header, right after a scroll event the header is
\* shadowed exactly when the offset exceeds 50 and the scroll-to-top control
\* is visible exactly when it exceeds 300; and in every state after a scroll
\* event a visible control implies a shadowed header.
C23_ScrollThresholds ==
    page.header
    => /\ page.last = "scroll"
          => /\ page.shadow <=> page.pageYOffset > 50
             /\ page.topVisible <=> page.pageYOffset > 300
       /\ page.topVisible => page.shadow

C23_Witness ==
    /\ page.header
    /\ page.last = "scroll"
    /\ page.pageYOffset = 300
    /\ page.shadow
    /\ ~page.topVisible

\* C24: a settled call of testBackendConnection has resolved, never thrown:
\* to true exactly when the fetch fulfilled with a status in 200..299, to
\* false when it fulfilled with another status or rejected.
C24_HealthProbe ==
    probe.pc = "done"
    => /\ ~probe.threw
       /\ probe.result <=> (probe.settled = "response" /\ probe.status \in 200..299)

C24_Witness ==
    /\ probe.pc = "done"
    /\ probe.settled = "error"
    /\ ~probe.result
    /\ ~probe.threw

----------------------------------------------------------------------------
(* Implicit properties of the submission flow *)

\* the auto-hide timer of the success banner rendered last has time left
OwnDelayRunning ==
    \E a \in Attempts : hideTimer[a].state = "running" /\ hideTimer[a].left > 0

\* C25: a visible success banner whose own auto-hide delay has not elapsed
\* is not hidden by any step other than a submit event; in particular not
\* by the timer of an earlier success banner.
C25_SuccessBannerFullDelay ==
    [][(SuccessBannerVisible /\ OwnDelayRunning /\ ~Submits)
       => ~formMessage'.hidden]_vars


\* C26: an attempt rendered the success banner or reset the form only if it
\* passed validation, sent its request, got a 2xx response while its race
\* was open and had the body parsed; it then did both. A success banner on
\* the page comes from such an attempt.
C26_SuccessOnlyAfter2xx ==
    /\ \A a \in Attempts :
          (att[a].reset \/ att[a].type = "success")
          => /\ att[a].valid
             /\ att[a].posts = 1
             /\ att[a].fetch = "fulfilled"
             /\ att[a].status \in 200..299
             /\ att[a].cause = "success"
             /\ att[a].result.success
             /\ att[a].reset
             /\ att[a].type = "success"
    /\ formMessage.type = "success" => \E a \in Attempts : att[a].cause = "success"

C26_Witness ==
    \E a \in Attempts :
        /\ att[a].reset
        /\ att[a].cause = "success"
        /\ att[a].status = 200
        /\ att[a].timer = TimerFired
        /\ form = EmptyForm
        /\ SuccessBannerVisible


\* C27: the payload of every request has exactly the nine keys firstName,
\* lastName, email, company, phone, service, message, timestamp and source:
\* neither the privacy value nor any other control of the form is in it.
C27_PayloadKeysOnly ==
    \A a \in Started :
        att[a].posts = 1
        => /\ DOMAIN att[a].payload =
                 {"firstName", "lastName", "email", "company", "phone",
                  "service", "message", "timestamp", "source"}
           /\ Cardinality(DOMAIN att[a].payload) = 9
           /\ "privacy" \notin DOMAIN att[a].payload
           /\ \A key \in DOMAIN form \ PayloadKeys : key \notin DOMAIN att[a].payload

C27_Witness ==
    \E a \in Started :
        /\ form["privacy"] = ON
        /\ form["subject"] = <<"a", "a">>
        /\ att[a].posts = 1
        /\ "subject" \notin DOMAIN att[a].payload


\* the attempts a step concludes
Concluding == {a \in Attempts : att[a].pc # "done" /\ att'[a].pc = "done"}

\* C28: every step that concludes an attempt, whether or not other attempts
\* were submitted later or concluded earlier, shows that attempt's banner
\* and resets the form exactly when that attempt succeeded; no other step
\* changes the banner's text or type. Hence a visible banner is that of the
\* attempt that concluded last.
C28_LastConcludedWins ==
    [][/\ \A a \in Concluding :
             /\ formMessage' = [hidden |-> FALSE, text |-> att'[a].shown,
                                type |-> att'[a].type]
             /\ form' = IF att'[a].reset THEN ResetForm(form) ELSE form
       /\ Concluding = {}
          => /\ formMessage'.text = formMessage.text
             /\ formMessage'.type = formMessage.type]_vars

C28_Witness ==
    \E a, b \in Attempts :
        /\ a < b
        /\ att[b].reentrant
        /\ att[b].cause = "success"
        /\ att[a].cause = "network"
        /\ formMessage = [hidden |-> FALSE, text |-> NETWORK_MSG, type |-> "error"]
        /\ form = EmptyForm


\* C29: every attempt that got past validation and has concluded got a
\* result from sendContactForm with a boolean success flag and a non-empty
\* message; its handler did not throw, and neither the catch branch's text
\* nor the fallback text was shown.
C29_SendNeverRejects ==
    /\ \A a \in Attempts :
          (att[a].pc = "done" /\ att[a].cause # "validation")
          => /\ att[a].result.success \in BOOLEAN
             /\ att[a].result.message # ""
             /\ ~att[a].threw
             /\ att[a].shown \notin {FALLBACK_MSG, CATCH_MSG}
             /\ att[a].shown = IF att[a].result.success
                               THEN THANKS_MSG
                               ELSE att[a].result.message
    /\ formMessage.text \notin {FALLBACK_MSG, CATCH_MSG}

C29_Witness ==
    \E a, b \in Attempts :
        /\ att[a].cause = "network"
        /\ att[a].result = [success |-> FALSE, message |-> GENERIC_MSG]
        /\ att[b].cause = "body"
        /\ att[b].result = [success |-> FALSE, message |-> GENERIC_MSG]
        /\ ~att[a].threw /\ ~att[b].threw

====
